---------------------------- MODULE Spec2Model ----------------------------
(***************************************************************************)
(* A model of DivyaPrabandamScraper (src/data/scraper.py): the recursive   *)
(* path discovery, the Prabandam structure analysis, the record extraction *)
(* and the scrape_and_save pipeline with its pool of worker threads.       *)
(*                                                                         *)
(* Python values are tagged records [t |-> type, v |-> value]:             *)
(*   str  (v a TLA+ string), num (v an integer), null, bool,               *)
(*   list (v a sequence of values) and                                     *)
(*   dict (v a sequence of [k |-> key, v |-> value] in insertion order).   *)
(* A Python list of str (url_paths, prabandam_urls, paasuram_urls) is a    *)
(* sequence of TLA+ strings.  The mapping process_paasuram returns is a    *)
(* sequence of [k |-> key, v |-> string] in insertion order, <<>> for {}.  *)
(***************************************************************************)
EXTENDS Integers, Sequences, FiniteSets, TLC

\* ------------------------------------------------------------ Python values

Str(s) == [t |-> "str", v |-> s]
Num(n) == [t |-> "num", v |-> n]
Null == [t |-> "null", v |-> "None"]
List(xs) == [t |-> "list", v |-> xs]
Dict(kvs) == [t |-> "dict", v |-> kvs]
KV(key, value) == [k |-> key, v |-> value]

\* bool(x): the truth value Python's `if x` / `not x` uses.
Truthy(x) ==
  CASE x.t = "str" -> x.v # ""
    [] x.t = "num" -> x.v # 0
    [] x.t = "null" -> FALSE
    [] x.t = "bool" -> x.v
    [] x.t = "list" -> Len(x.v) > 0
    [] x.t = "dict" -> Len(x.v) > 0

\* sep.join(parts) for a sequence of strings.
RECURSIVE Join(_, _)
Join(sep, parts) ==
  IF Len(parts) = 0 THEN ""
  ELSE IF Len(parts) = 1 THEN parts[1]
  ELSE parts[1] \o sep \o Join(sep, Tail(parts))

\* repr(x) and str(x); a string's repr is quoted, str(None) is "None".
RECURSIVE PyRepr(_)
PyRepr(x) ==
  CASE x.t = "str" -> "'" \o x.v \o "'"
    [] x.t = "num" -> ToString(x.v)
    [] x.t = "null" -> "None"
    [] x.t = "bool" -> IF x.v THEN "True" ELSE "False"
    [] x.t = "list" ->
         "[" \o Join(", ", [i \in 1..Len(x.v) |-> PyRepr(x.v[i])]) \o "]"
    [] x.t = "dict" ->
         "{" \o Join(", ", [i \in 1..Len(x.v) |->
                  "'" \o x.v[i].k \o "': " \o PyRepr(x.v[i].v)]) \o "}"

PyStr(x) == IF x.t = "str" THEN x.v ELSE PyRepr(x)

\* key in d, and d.get(key, default), for a dict d.
HasKey(d, key) == \E i \in 1..Len(d.v) : d.v[i].k = key

DictGet(d, key, default) ==
  IF HasKey(d, key)
  THEN d.v[CHOOSE i \in 1..Len(d.v) : d.v[i].k = key].v
  ELSE default

\* s.startswith(p), sub in s, s.rstrip('/') on strings.
StartsWith(s, p) == Len(s) >= Len(p) /\ SubSeq(s, 1, Len(p)) = p

Contains(s, sub) ==
  \E i \in 1..(Len(s) - Len(sub) + 1) : SubSeq(s, i, i + Len(sub) - 1) = sub

RECURSIVE RStripSlash(_)
RStripSlash(s) ==
  IF Len(s) > 0 /\ SubSeq(s, Len(s), Len(s)) = "/"
  THEN RStripSlash(SubSeq(s, 1, Len(s) - 1))
  ELSE s

\* ------------------------------------------------------------ configuration

base_url == "https://www.uveda.org"
build_id == "df6mzA8-_tkrR74hTz9Sc"
max_workers == 5

\* ------------------------------------------------------------ _construct_url

construct_url(path) ==
  LET p == IF ~StartsWith(path, "/") THEN "/" \o path ELSE path
  IN  base_url \o "/_next/data/" \o build_id \o p \o ".json"

\* ------------------------------------------------------------ find_url_paths

\* find_url_paths(obj, url_paths): url_paths after the call.  A value under
\* the key 'url_path_clean' is appended when it is a str and is not walked;
\* a value under any other key, and every element of a list, is walked.
RECURSIVE find_url_paths(_, _), FindInItems(_, _, _), FindInElems(_, _, _)
find_url_paths(obj, url_paths) ==
  IF obj.t = "dict" THEN FindInItems(obj.v, 1, url_paths)
  ELSE IF obj.t = "list" THEN FindInElems(obj.v, 1, url_paths)
  ELSE url_paths

\* FindInItems walking a value under 'url_path_clean' as well.
RECURSIVE FindInItemsWalkAll(_, _, _)
FindInItemsWalkAll(items, i, url_paths) ==
  IF i > Len(items) THEN url_paths
  ELSE LET key == items[i].k
           value == items[i].v
           after == IF key = "url_path_clean" /\ value.t = "str"
                    THEN Append(url_paths, value.v)
                    ELSE find_url_paths(value, url_paths)
       IN  FindInItemsWalkAll(items, i + 1, after)

\* The loop of lines 63-68 from item i on.
FindInItems(items, i, url_paths) ==
  IF i > Len(items) THEN url_paths
  ELSE LET key == items[i].k
           value == items[i].v
           after == IF key = "url_path_clean"
                    THEN (IF value.t = "str"
                          THEN Append(url_paths, value.v)
                          ELSE url_paths)
                    ELSE find_url_paths(value, url_paths)
       IN  FindInItems(items, i + 1, after)

\* The loop of lines 70-71 from element i on.
FindInElems(elems, i, url_paths) ==
  IF i > Len(elems) THEN url_paths
  ELSE FindInElems(elems, i + 1, find_url_paths(elems[i], url_paths))

\* ------------------------------------------------------------ _safe_join_scriptures

\* [str(x) for x in xs if x], from index i on.
RECURSIVE TruthyStrs(_, _)
TruthyStrs(xs, i) ==
  IF i > Len(xs) THEN <<>>
  ELSE (IF Truthy(xs[i]) THEN <<PyStr(xs[i])>> ELSE <<>>)
       \o TruthyStrs(xs, i + 1)

\* _safe_join_scriptures without the `if s` filter of line 78.
safe_join_every_element(scriptures) ==
  IF ~Truthy(scriptures) THEN ""
  ELSE IF scriptures.t = "list"
  THEN Join(",", [i \in 1..Len(scriptures.v) |-> PyStr(scriptures.v[i])])
  ELSE IF scriptures.t = "str" THEN scriptures.v
  ELSE PyStr(scriptures)

safe_join_scriptures(scriptures) ==
  IF ~Truthy(scriptures) THEN ""
  ELSE IF scriptures.t = "list" THEN Join(",", TruthyStrs(scriptures.v, 1))
  ELSE IF scriptures.t = "str" THEN scriptures.v
  ELSE PyStr(scriptures)

\* ------------------------------------------------------------ process_paasuram

\* The keys of the returned record and the pageProps property each reads.
Fieldnames ==
  <<"number", "tamil", "tamil_clear", "english_transliteration",
    "simple_english", "explanatory_notes", "purport", "ragam", "thalam",
    "mood", "scriptures">>

PropNames ==
  <<"number_full", "pasuram_ta_c", "pasuram_ta", "pasuram_en", "simple_en",
    "explanatory_notes_en", "purport_en", "ragam", "thalam", "mood",
    "scriptures">>

\* str(props.get(name, '')) for the first ten fields, the scriptures join
\* for the last.
FieldValue(props, i) ==
  IF PropNames[i] = "scriptures"
  THEN safe_join_scriptures(DictGet(props, "scriptures", List(<<>>)))
  ELSE PyStr(DictGet(props, PropNames[i], Str("")))

\* process_paasuram applied to what _fetch_json returned for the url.
\* data that is not a dict either fails the 'pageProps' test or raises on
\* data['pageProps']; props that is not a dict raises on props.get; every
\* exception is caught and gives {}.
process_paasuram(data) ==
  IF ~Truthy(data) THEN <<>>
  ELSE IF data.t # "dict" THEN <<>>
  ELSE IF ~HasKey(data, "pageProps") THEN <<>>
  ELSE LET props == DictGet(data, "pageProps", Null)
       IN  IF props.t # "dict" THEN <<>>
           ELSE [i \in 1..Len(Fieldnames) |->
                   KV(Fieldnames[i], FieldValue(props, i))]

\* ------------------------------------------------------------ Prabandam analysis

\* len(x[1:]) for a list or a str.
SliceLen(x) == IF Len(x.v) > 0 THEN Len(x.v) - 1 ELSE 0

\* prabandam_depth = len(descendants[-1][1:]): slicing raises TypeError
\* unless the last entry is a list or a str.
prabandam_depth(descendants) ==
  LET last == descendants.v[Len(descendants.v)]
  IN  IF last.t \in {"list", "str"}
      THEN [raised |-> FALSE, depth |-> SliceLen(last)]
      ELSE [raised |-> TRUE, depth |-> 0]

\* entry_urls with the depth test of line 152 reading `>=`.
entry_urls_at_least_depth(paasuram, depth) ==
  LET path_parts == TruthyStrs(paasuram.v, 1)
      path == "/divya-prabandam/" \o Join("/", path_parts)
  IN  IF path_parts = <<>> THEN <<>>
      ELSE IF ~Contains(path, "taniyan") /\ ~Contains(path, "advanced")
              /\ SliceLen(paasuram) >= depth
      THEN <<construct_url(path)>>
      ELSE <<>>

\* The body of `for paasuram in descendants` for one entry that is a list:
\* the urls it appends to paasuram_urls.
entry_urls(paasuram, depth) ==
  LET path_parts == TruthyStrs(paasuram.v, 1)
      path == "/divya-prabandam/" \o Join("/", path_parts)
  IN  IF path_parts = <<>> THEN <<>>
      ELSE IF ~Contains(path, "taniyan") /\ ~Contains(path, "advanced")
              /\ depth = SliceLen(paasuram)
      THEN <<construct_url(path)>>
      ELSE <<>>

\* The loop over descendants from entry i on: urls appended, and the
\* indices of the entries that passed the isinstance test.
RECURSIVE entry_loop(_, _, _)
entry_loop(entries, i, depth) ==
  IF i > Len(entries) THEN [urls |-> <<>>, evaluated |-> <<>>]
  ELSE LET rest == entry_loop(entries, i + 1, depth)
       IN  IF entries[i].t # "list" THEN rest
           ELSE [urls |-> entry_urls(entries[i], depth) \o rest.urls,
                 evaluated |-> <<i>> \o rest.evaluated]

\* One iteration of `for url in prabandam_urls` on the fetched data:
\* what it appends to paasuram_urls, which entries it evaluated, whether
\* the iteration ended in the outer except clause.  descendants that is
\* not a list yields no url: a str has no list elements, a dict raises on
\* [-1], a number raises on [-1].
NoUrls(raised) == [urls |-> <<>>, evaluated |-> <<>>, raised |-> raised]

\* For data that is not a dict: whether `'pageProps' not in data` or the
\* data['pageProps'] after it raises (a list or str holding 'pageProps'
\* passes the test and raises on the subscript; a number raises on `in`).
InRaises(data) ==
  CASE data.t = "list" -> \E i \in 1..Len(data.v) : data.v[i] = Str("pageProps")
    [] data.t = "str" -> Contains(data.v, "pageProps")
    [] OTHER -> TRUE

analyze_prabandam(data) ==
  IF ~Truthy(data) THEN NoUrls(FALSE)
  ELSE IF data.t # "dict" THEN NoUrls(InRaises(data))
  ELSE IF ~HasKey(data, "pageProps") THEN NoUrls(FALSE)
  ELSE LET props == DictGet(data, "pageProps", Null)
       IN  IF props.t # "dict" THEN NoUrls(TRUE)
           ELSE LET descendants == DictGet(props, "descendants_list", List(<<>>))
                IN  IF ~Truthy(descendants) THEN NoUrls(FALSE)
                    ELSE IF descendants.t # "list"
                    THEN NoUrls(descendants.t # "str")
                    ELSE LET d == prabandam_depth(descendants)
                             r == entry_loop(descendants.v, 1, d.depth)
                         IN  IF d.raised THEN NoUrls(TRUE)
                             ELSE [urls |-> r.urls, evaluated |-> r.evaluated,
                                   raised |-> FALSE]

\* ------------------------------------------------------------ JSON values

MaxNodes == 5

\* The keys and the scalars of the values walked.  A non-string under
\* 'url_path_clean' is a list or a dict (empty or not).
FindKeys == {"url_path_clean", "items"}
FindScalars == {Str("/foo"), Str("/bar")}

\* The JSON values of exactly n nodes (a scalar, a list or a dict is one
\* node), the sequences of values of n nodes in all, and the dict items
\* with distinct keys among `keys` whose values have n nodes in all.
RECURSIVE JsonOfSize(_), ElemsOfSize(_), ItemsOfSize(_, _)
JsonOfSize(n) ==
  IF n < 1 THEN {}
  ELSE (IF n = 1 THEN FindScalars ELSE {})
       \cup {List(xs) : xs \in ElemsOfSize(n - 1)}
       \cup {Dict(kvs) : kvs \in ItemsOfSize(n - 1, FindKeys)}

ElemsOfSize(n) ==
  IF n = 0 THEN {<<>>}
  ELSE UNION {{<<x>> \o xs : x \in JsonOfSize(m), xs \in ElemsOfSize(n - m)} :
                m \in 1..n}

ItemsOfSize(n, keys) ==
  IF n = 0 THEN {<<>>}
  ELSE UNION {UNION {{<<KV(k, x)>> \o kvs :
                        x \in JsonOfSize(m),
                        kvs \in ItemsOfSize(n - m, keys \ {k})} :
                       m \in 1..n} :
                k \in keys}

JsonUpTo(n) == UNION {JsonOfSize(m) : m \in 1..n}

\* ------------------------------------------------------------ the remote site

\* The Prabandam "a" of the site "run" has at most MaxLeaves verses, any
\* other Prabandam has two.
MaxLeaves == 4

\* What follows "/divya-prabandam/" in a data url, without ".json".
UrlTail(url) ==
  LET prefix == base_url \o "/_next/data/" \o build_id \o "/divya-prabandam/"
  IN  IF StartsWith(url, prefix) /\ Len(url) >= Len(prefix) + 5
      THEN SubSeq(url, Len(prefix) + 1, Len(url) - 5)
      ELSE ""

\* A root page holding the given values under 'url_path_clean', the first
\* in a list, the others three levels further down.
RootPage(paths) ==
  Dict(<<KV("pageProps", Dict(<<KV("items", List(
    [i \in 1..Len(paths) |->
       IF i = 1
       THEN Dict(<<KV("title", Str("t")), KV("url_path_clean", paths[i])>>)
       ELSE Dict(<<KV("children", List(<<
              Dict(<<KV("node", Dict(<<KV("url_path_clean", paths[i])>>))>>)
            >>))>>)]))>>))>>)

\* A Prabandam page: a section entry, a taniyan entry and n verse entries
\* one level below the section.
PrabandamPage(slug, n) ==
  Dict(<<KV("pageProps", Dict(<<KV("descendants_list", List(
    <<List(<<Str("cat"), Str(slug)>>),
      List(<<Str("cat"), Str(slug), Str("taniyan")>>)>>
    \o [j \in 1..n |-> List(<<Str("cat"), Str(slug), Num(j)>>)]))>>))>>)

\* A verse page; its number names the url it is served at.
LeafPage(url) ==
  Dict(<<KV("pageProps", Dict(<<KV("number_full", Str(UrlTail(url))),
                                KV("pasuram_ta", Str("ta")),
                                KV("scriptures", List(<<Str("a"), Str("b")>>))
                              >>))>>)

\* The results that give no record: {} (the request failed), a body
\* without pageProps, and a body whose pageProps is null (props.get raises).
FetchFailed == Dict(<<>>)
NotAPage == Dict(<<KV("notFound", [t |-> "bool", v |-> TRUE])>>)
NullProps == Dict(<<KV("pageProps", Null)>>)

\* The values url_path_clean takes on the site "paths" and the length of
\* the longest list of them.
MaxPaths == 3

PathValues ==
  {Str(""), Str("/"), Str("//"), Str("/divya-prabandam/a"),
   Str("/divya-prabandam/a/")}

\* The descendant entries the site "analyze" serves, and the length of the
\* longest descendants_list made of them.
MaxEntries == 3

WellFormedEntries ==
  {List(<<>>),
   List(<<Str("")>>),
   List(<<Str("cat")>>),
   List(<<Str(""), Str("")>>),
   List(<<Str("cat"), Str("a")>>),
   List(<<Str("cat"), Num(2)>>),
   List(<<Str("cat"), Str("taniyan")>>),
   List(<<Str("cat"), Str("advanced-1")>>),
   List(<<Str("cat"), Str("a"), Str("b")>>),
   List(<<Str("cat"), Str("a"), Str("taniyan")>>)}

MalformedEntries == {Num(5), Null, Str("ab")}

SeqsUpTo(S, n) == UNION {[1..m -> S] : m \in 1..n}

DescendantsPage(entries) ==
  Dict(<<KV("pageProps", Dict(<<KV("descendants_list", List(entries))>>))>>)

\* The verse pages the site "record" serves: pageProps with each of three
\* properties absent, null or set, scriptures being a string, a number or
\* a list of at most MaxScriptures scalars.
MaxScriptures == 2

ScriptureScalars == {Str("a"), Str("b"), Str(""), Num(0)}

ScripturesValues ==
  {Null, Str(""), Str("already a string"), Num(4)}
  \cup {List(xs) : xs \in SeqsUpTo(ScriptureScalars, MaxScriptures) \cup {<<>>}}

\* The item for a property, none when the property is absent.
Absent == [t |-> "absent", v |-> "absent"]

Prop(name, choice) ==
  IF choice = Absent THEN <<>> ELSE <<KV(name, choice)>>

RecordPages ==
  {Dict(<<KV("pageProps",
            Dict(Prop("number_full", number) \o Prop("ragam", ragam)
                 \o Prop("scriptures", scriptures)))>>) :
     number \in {Absent, Null, Str("1.1.1"), Num(3)},
     ragam \in {Absent, Null, Str("r")},
     scriptures \in {Absent} \cup ScripturesValues}

\* _fetch_json(url) returns {} on a request error and the decoded body
\* otherwise; the sets below are the results a site can give.
RootResponses(site) ==
  CASE site = "run" ->
         {FetchFailed, NotAPage, RootPage(<<Str("")>>),
          RootPage(<<Str("/divya-prabandam/a")>>),
          RootPage(<<Str("/divya-prabandam/a/"), Str("/divya-prabandam/b")>>)}
    [] site = "find" -> JsonUpTo(MaxNodes)
    [] site = "paths" -> {RootPage(paths) : paths \in SeqsUpTo(PathValues, MaxPaths)}
    [] site \in {"analyze", "record"} -> {RootPage(<<Str("/divya-prabandam/a")>>)}

PrabandamResponses(site, url) ==
  CASE site = "run" ->
         {FetchFailed, NotAPage}
         \cup (IF UrlTail(url) = "a"
               THEN {PrabandamPage("a", n) : n \in 1..MaxLeaves}
               ELSE {PrabandamPage(UrlTail(url), 2)})
    [] site = "analyze" ->
         {FetchFailed}
         \cup {DescendantsPage(entries) :
                 entries \in SeqsUpTo(WellFormedEntries \cup MalformedEntries,
                                      MaxEntries)}
    [] site = "record" -> {PrabandamPage(UrlTail(url), 1)}

LeafResponses(site, url) ==
  CASE site = "run" -> {FetchFailed, NotAPage, NullProps, LeafPage(url)}
    [] site = "record" ->
         {FetchFailed, NotAPage, NullProps, Num(5), List(<<Str("pageProps")>>)}
         \cup RecordPages

\* ------------------------------------------------------------ state

VARIABLES
  pc,              \* where scrape_and_save is: fetch_root, find, build,
                   \* analyze, pool, open, write, done or error
  error,           \* the message of the Exception raised, "" when none
  fetches,         \* the number of _fetch_json calls made, by kind of url
  initial_data,    \* the root fetch's result
  url_paths,       \* the paths find_url_paths collected
  path_args,       \* the paths passed to _construct_url at line 125
  prabandam_urls,
  pr_idx,          \* the position of `for url in prabandam_urls`
  data,            \* the Prabandam fetch result of the last iteration
  analysis,        \* what the last iteration did (analyze_prabandam)
  paasuram_urls,
  futures,         \* the number of urls submitted to the executor
  queue,           \* the executor's work queue: indices into paasuram_urls
  running,         \* the work items a worker thread is executing
  result,          \* per future: whether it is done, the data its worker
                   \* fetched and its value
  col_idx,         \* the position of `for future in futures`
  paasurams,       \* the records collected
  csvfile          \* the output file: whether opened, its header, its rows

vars ==
  <<pc, error, fetches, initial_data, url_paths, path_args, prabandam_urls,
    pr_idx, data, analysis, paasuram_urls, futures, queue, running, result,
    col_idx, paasurams, csvfile>>

rootVars == <<initial_data, url_paths, path_args, prabandam_urls>>
analyzeVars == <<pr_idx, data, analysis, paasuram_urls>>
poolVars == <<futures, queue, running, result, col_idx, paasurams>>

NoFile == [opened |-> FALSE, header |-> <<>>, rows |-> <<>>]
Pending == [done |-> FALSE, data |-> Null, value |-> <<>>]

Init ==
  /\ pc = "fetch_root"
  /\ error = ""
  /\ fetches = [root |-> 0, prabandam |-> 0, leaf |-> 0]
  /\ initial_data = Null
  /\ url_paths = <<>>
  /\ path_args = <<>>
  /\ prabandam_urls = <<>>
  /\ pr_idx = 1
  /\ data = Null
  /\ analysis = NoUrls(FALSE)
  /\ paasuram_urls = <<>>
  /\ futures = 0
  /\ queue = <<>>
  /\ running = {}
  /\ result = <<>>
  /\ col_idx = 1
  /\ paasurams = <<>>
  /\ csvfile = NoFile

\* raise Exception(msg): scrape_and_save ends, main() reports the message.
Raise(msg) == pc' = "error" /\ error' = msg

\* ------------------------------------------------------------ scrape_and_save

\* FetchRoot without the `if not initial_data` test of line 115.
FetchRootUnchecked(site) ==
  /\ pc = "fetch_root"
  /\ \E resp \in RootResponses(site) : initial_data' = resp
  /\ pc' = "find"
  /\ fetches' = [fetches EXCEPT !.root = @ + 1]
  /\ UNCHANGED <<error, url_paths, path_args, prabandam_urls, analyzeVars,
                 poolVars, csvfile>>

\* Lines 114-116: the root fetch, whose result the site decides.
FetchRoot(site) ==
  /\ pc = "fetch_root"
  /\ \E resp \in RootResponses(site) :
       /\ initial_data' = resp
       /\ IF ~Truthy(resp)
          THEN Raise("Failed to fetch initial data")
          ELSE pc' = "find" /\ error' = error
  /\ fetches' = [fetches EXCEPT !.root = @ + 1]
  /\ UNCHANGED <<url_paths, path_args, prabandam_urls, analyzeVars, poolVars,
                 csvfile>>

\* Lines 118-121.
FindPaths ==
  /\ pc = "find"
  /\ url_paths' = find_url_paths(initial_data, <<>>)
  /\ IF url_paths' = <<>>
     THEN Raise("No URL paths found in initial data")
     ELSE pc' = "build" /\ error' = error
  /\ UNCHANGED <<fetches, initial_data, path_args, prabandam_urls,
                 analyzeVars, poolVars, csvfile>>

\* Line 125: [path.rstrip('/') for path in url_paths if path], the
\* arguments of _construct_url.
RECURSIVE prabandam_path_args(_, _)
prabandam_path_args(paths, i) ==
  IF i > Len(paths) THEN <<>>
  ELSE (IF paths[i] # "" THEN <<RStripSlash(paths[i])>> ELSE <<>>)
       \o prabandam_path_args(paths, i + 1)

\* Lines 125-127.
BuildPrabandamUrls ==
  /\ pc = "build"
  /\ path_args' = prabandam_path_args(url_paths, 1)
  /\ prabandam_urls' =
       [i \in 1..Len(path_args') |-> construct_url(path_args'[i])]
  /\ IF prabandam_urls' = <<>>
     THEN Raise("No Prabandam URLs generated")
     ELSE pc' = "analyze" /\ error' = error
  /\ UNCHANGED <<fetches, initial_data, url_paths, analyzeVars, poolVars,
                 csvfile>>

\* Lines 132-159, one iteration: the fetch of prabandam_urls[pr_idx] and
\* the analysis of its descendants.
AnalyzePrabandam(site) ==
  /\ pc = "analyze"
  /\ pr_idx <= Len(prabandam_urls)
  /\ \E resp \in PrabandamResponses(site, prabandam_urls[pr_idx]) :
       /\ data' = resp
       /\ analysis' = analyze_prabandam(resp)
       /\ paasuram_urls' = paasuram_urls \o analysis'.urls
  /\ pr_idx' = pr_idx + 1
  /\ fetches' = [fetches EXCEPT !.prabandam = @ + 1]
  /\ UNCHANGED <<pc, error, rootVars, poolVars, csvfile>>

\* Lines 161-168: after the loop.
AnalyzeDone ==
  /\ pc = "analyze"
  /\ pr_idx > Len(prabandam_urls)
  /\ IF paasuram_urls = <<>>
     THEN Raise("No Paasuram URLs found")
     ELSE pc' = "pool" /\ error' = error
  /\ UNCHANGED <<fetches, rootVars, analyzeVars, poolVars, csvfile>>

\* Lines 176-177: executor.submit for the next url; the work item joins
\* the executor's queue.
Submit ==
  /\ pc = "pool"
  /\ futures < Len(paasuram_urls)
  /\ futures' = futures + 1
  /\ queue' = Append(queue, futures + 1)
  /\ result' = Append(result, Pending)
  /\ UNCHANGED <<pc, error, fetches, rootVars, analyzeVars, running, col_idx,
                 paasurams, csvfile>>

\* A worker thread of the pool takes the oldest work item; at most
\* max_workers threads exist.
WorkerStart ==
  /\ queue # <<>>
  /\ Cardinality(running) < max_workers
  /\ running' = running \cup {Head(queue)}
  /\ queue' = Tail(queue)
  /\ UNCHANGED <<pc, error, fetches, rootVars, analyzeVars, futures, result,
                 col_idx, paasurams, csvfile>>

\* WorkerRun with the result delivered in completion order: it goes to the
\* first future that is not done instead of the work item's own.
WorkerRunCompletionOrder(site) ==
  /\ \E i \in running :
       /\ \E resp \in LeafResponses(site, paasuram_urls[i]) :
            LET slot == CHOOSE j \in 1..Len(result) :
                          /\ ~result[j].done
                          /\ \A h \in 1..(j - 1) : result[h].done
            IN  result' = [result EXCEPT ![slot] =
                             [done |-> TRUE, data |-> resp,
                          value |-> process_paasuram(resp)]]
       /\ running' = running \ {i}
  /\ fetches' = [fetches EXCEPT !.leaf = @ + 1]
  /\ UNCHANGED <<pc, error, rootVars, analyzeVars, futures, queue, col_idx,
                 paasurams, csvfile>>

\* Lines 170-173 in a worker thread: process_paasuram(url) on whatever the
\* fetch returns; the future gets the result.
WorkerRun(site) ==
  /\ \E i \in running :
       /\ \E resp \in LeafResponses(site, paasuram_urls[i]) :
            result' = [result EXCEPT ![i] =
                         [done |-> TRUE, data |-> resp,
                          value |-> process_paasuram(resp)]]
       /\ running' = running \ {i}
  /\ fetches' = [fetches EXCEPT !.leaf = @ + 1]
  /\ UNCHANGED <<pc, error, rootVars, analyzeVars, futures, queue, col_idx,
                 paasurams, csvfile>>

\* Collect without the `if result` test of line 181.
CollectUnfiltered ==
  /\ pc = "pool"
  /\ futures = Len(paasuram_urls)
  /\ col_idx <= futures
  /\ result[col_idx].done
  /\ paasurams' = Append(paasurams, result[col_idx].value)
  /\ col_idx' = col_idx + 1
  /\ UNCHANGED <<pc, error, fetches, rootVars, analyzeVars, futures, queue,
                 running, result, csvfile>>

\* Lines 178-185, one iteration: future.result() blocks until the future
\* at col_idx is done; a non-empty result is appended.
Collect ==
  /\ pc = "pool"
  /\ futures = Len(paasuram_urls)
  /\ col_idx <= futures
  /\ result[col_idx].done
  /\ paasurams' = IF result[col_idx].value # <<>>
                  THEN Append(paasurams, result[col_idx].value)
                  ELSE paasurams
  /\ col_idx' = col_idx + 1
  /\ UNCHANGED <<pc, error, fetches, rootVars, analyzeVars, futures, queue,
                 running, result, csvfile>>

\* CollectDone with the output file opened before the `if not paasurams`
\* test of line 187.
CollectDoneOpensFirst ==
  /\ pc = "pool"
  /\ futures = Len(paasuram_urls)
  /\ col_idx > futures
  /\ csvfile' = [opened |-> TRUE, header |-> <<>>, rows |-> <<>>]
  /\ IF paasurams = <<>>
     THEN Raise("No paasuram data collected")
     ELSE pc' = "open" /\ error' = error
  /\ UNCHANGED <<fetches, rootVars, analyzeVars, poolVars>>

\* Lines 187-192: after the loop; fieldnames are the first record's keys.
CollectDone ==
  /\ pc = "pool"
  /\ futures = Len(paasuram_urls)
  /\ col_idx > futures
  /\ IF paasurams = <<>>
     THEN Raise("No paasuram data collected")
     ELSE pc' = "open" /\ error' = error
  /\ UNCHANGED <<fetches, rootVars, analyzeVars, poolVars, csvfile>>

\* record[key], '' (DictWriter's restval) when the record has no such key.
RecordGet(record, key) ==
  IF \E i \in 1..Len(record) : record[i].k = key
  THEN record[CHOOSE i \in 1..Len(record) : record[i].k = key].v
  ELSE ""

\* Lines 192-195: open(output_file, 'w') and writeheader().
OpenOutput ==
  /\ pc = "open"
  /\ csvfile' = [opened |-> TRUE,
                 header |-> [i \in 1..Len(paasurams[1]) |-> paasurams[1][i].k],
                 rows |-> <<>>]
  /\ pc' = "write"
  /\ UNCHANGED <<error, fetches, rootVars, analyzeVars, poolVars>>

\* Lines 197-199, one iteration: writer.writerow(paasuram).
WriteRow ==
  /\ pc = "write"
  /\ Len(csvfile.rows) < Len(paasurams)
  /\ LET paasuram == paasurams[Len(csvfile.rows) + 1]
         row == [i \in 1..Len(csvfile.header) |->
                   RecordGet(paasuram, csvfile.header[i])]
     IN  csvfile' = [csvfile EXCEPT !.rows = Append(@, row)]
  /\ UNCHANGED <<pc, error, fetches, rootVars, analyzeVars, poolVars>>

\* Line 201: every row written, the file closed.
Finish ==
  /\ pc = "write"
  /\ Len(csvfile.rows) = Len(paasurams)
  /\ pc' = "done"
  /\ UNCHANGED <<error, fetches, rootVars, analyzeVars, poolVars, csvfile>>

\* ------------------------------------------------------------ properties of a run

Succeeded(i) == result[i].done /\ result[i].value # <<>>

\* k: the number of leaf urls whose extraction succeeded.
NumSucceeded == Cardinality({i \in 1..Len(result) : Succeeded(i)})

\* The csv row of a record under the eleven-column header.
RowOf(record) == [i \in 1..Len(Fieldnames) |-> RecordGet(record, Fieldnames[i])]

\* C1: no leaf fetch is submitted to the worker pool (and none is made)
\* unless the root fetch returned a non-empty value, a url path was found,
\* a Prabandam url was built and a Paasuram url was discovered, each stage
\* resting on the one before; a run whose root fetch returns an empty
\* mapping is aborted by that fetch, with one fetch made in all.
C1_LeafFetchNeedsEveryStage ==
  /\ (futures > 0 \/ fetches.leaf > 0 \/ queue # <<>> \/ running # {})
       => paasuram_urls # <<>>
  /\ paasuram_urls # <<>> => prabandam_urls # <<>> /\ fetches.prabandam > 0
  /\ (prabandam_urls # <<>> \/ fetches.prabandam > 0) => url_paths # <<>>
  /\ url_paths # <<>> => Truthy(initial_data) /\ fetches.root = 1
  /\ (fetches.root > 0 /\ ~Truthy(initial_data))
       => /\ pc = "error"
          /\ error = "Failed to fetch initial data"
          /\ fetches = [root |-> 1, prabandam |-> 0, leaf |-> 0]
          /\ futures = 0

\* C1 witness: the root fetch came back empty and the run is over.
C1_Witness ==
  /\ fetches.root = 1
  /\ initial_data = FetchFailed
  /\ pc = "error"

\* C2: a run that ended in a fatal condition never opened the output
\* file, and the file is opened only with at least one record collected.
C2_NoOutputOnAbort ==
  /\ pc = "error" => csvfile = NoFile
  /\ csvfile.opened => Len(paasurams) >= 1 /\ pc \in {"write", "done"}
  /\ error # "" => pc = "error"

\* C2 witness: every leaf fetch was made, none gave a record, the run
\* aborted.
C2_Witness ==
  /\ pc = "error"
  /\ error = "No paasuram data collected"
  /\ fetches.leaf >= 2

\* C3: with N leaf urls of which k >= 1 extractions succeed the run does
\* not abort, and the output holds exactly k rows, the rows of the
\* successful extractions and no other; the pool phase aborts the run only
\* when k = 0.
C3_PartialFailureKeepsSuccesses ==
  /\ pc = "done"
       => /\ NumSucceeded >= 1
          /\ Len(csvfile.rows) = NumSucceeded
          /\ {csvfile.rows[j] : j \in 1..Len(csvfile.rows)}
               = {RowOf(result[i].value) :
                    i \in {h \in 1..Len(result) : Succeeded(h)}}
          /\ csvfile.header = Fieldnames
  /\ (pc = "error" /\ futures > 0) => NumSucceeded = 0
  /\ (pc = "error" /\ futures > 0) => \A i \in 1..Len(result) : result[i].done

\* C3 witness: five leaf urls, one failed extraction, four rows written.
C3_Witness ==
  /\ pc = "done"
  /\ Len(paasuram_urls) = 5
  /\ NumSucceeded = 4
  /\ Len(csvfile.rows) = 4

\* The records of the successful extractions among the first n futures,
\* in the order of paasuram_urls.
RECURSIVE RecordsInUrlOrder(_)
RecordsInUrlOrder(n) ==
  IF n = 0 THEN <<>>
  ELSE RecordsInUrlOrder(n - 1)
       \o (IF result[n].value # <<>>
           THEN <<process_paasuram(LeafPage(paasuram_urls[n]))>>
           ELSE <<>>)

\* C10: whatever the order in which the workers finish, the records
\* collected are those of the successful extractions in the order of the
\* leaf url list, at most one per url, and the rows are written in that
\* order.
C10_CollectedInUrlOrder ==
  /\ col_idx - 1 <= futures
  /\ paasurams = RecordsInUrlOrder(col_idx - 1)
  /\ \A j \in 1..Len(csvfile.rows) : csvfile.rows[j] = RowOf(paasurams[j])

\* C10 witness: the third future finished while the second was still
\* running, after the first had been collected.
C10_Witness ==
  /\ col_idx = 2
  /\ Len(paasurams) = 1
  /\ Len(result) >= 3
  /\ result[3].done /\ result[3].value # <<>>
  /\ ~result[2].done

\* ------------------------------------------------------------ properties of find_url_paths

\* The positions of a value's nodes: the index paths from the root, the
\* i-th child of a dict being the value of its i-th item.
Child(obj, i) == IF obj.t = "dict" THEN obj.v[i].v ELSE obj.v[i]

RECURSIVE Positions(_)
Positions(obj) ==
  {<<>>} \cup
  (IF obj.t \in {"list", "dict"}
   THEN UNION {{<<i>> \o p : p \in Positions(Child(obj, i))} :
                 i \in 1..Len(obj.v)}
   ELSE {})

RECURSIVE NodeAt(_, _)
NodeAt(obj, p) ==
  IF p = <<>> THEN obj ELSE NodeAt(Child(obj, Head(p)), Tail(p))

\* The node at p is stored under the key 'url_path_clean' of a dict.
UnderTargetKey(obj, p) ==
  /\ p # <<>>
  /\ LET parent == NodeAt(obj, SubSeq(p, 1, Len(p) - 1))
     IN  parent.t = "dict" /\ parent.v[p[Len(p)]].k = "url_path_clean"

IsMatch(obj, p) == UnderTargetKey(obj, p) /\ NodeAt(obj, p).t = "str"

\* p lies strictly below a node stored under the key 'url_path_clean'.
BelowTargetKey(obj, p) ==
  \E n \in 1..(Len(p) - 1) : UnderTargetKey(obj, SubSeq(p, 1, n))

\* Pre-order: a node before its descendants, siblings left to right.
RECURSIVE PreorderLess(_, _)
PreorderLess(p, q) ==
  IF p = <<>> THEN q # <<>>
  ELSE IF q = <<>> THEN FALSE
  ELSE IF Head(p) # Head(q) THEN Head(p) < Head(q)
  ELSE PreorderLess(Tail(p), Tail(q))

RECURSIVE StringsInPreorder(_, _)
StringsInPreorder(obj, ps) ==
  IF ps = {} THEN <<>>
  ELSE LET first == CHOOSE p \in ps : \A q \in ps \ {p} : PreorderLess(p, q)
       IN  <<NodeAt(obj, first).v>> \o StringsInPreorder(obj, ps \ {first})

FindHasRun == pc = "build" \/ error = "No URL paths found in initial data"

\* C4 as stated: url_paths holds exactly the string values stored under
\* 'url_path_clean' anywhere in the value, in pre-order, the walk entering
\* every value of every mapping.
C4_EveryStringUnderKey ==
  FindHasRun =>
    url_paths = StringsInPreorder(initial_data,
                  {p \in Positions(initial_data) : IsMatch(initial_data, p)})

\* C4 amended: url_paths holds exactly, in pre-order, the string values
\* stored under 'url_path_clean' that do not lie inside a value itself
\* stored under 'url_path_clean'; it is empty when there is none.
C4_StringsNotBelowKey ==
  FindHasRun =>
    url_paths = StringsInPreorder(initial_data,
                  {p \in Positions(initial_data) :
                     IsMatch(initial_data, p) /\ ~BelowTargetKey(initial_data, p)})

\* C4 witness: a value with a string under the key, and another string
\* under the key inside a non-string value stored under the key.
C4_Witness ==
  /\ pc = "build"
  /\ url_paths # <<>>
  /\ \E p \in Positions(initial_data) :
       IsMatch(initial_data, p) /\ BelowTargetKey(initial_data, p)

\* ------------------------------------------------------------ properties of the url stages

\* C7 as stated: every path passed to _construct_url when the Prabandam
\* urls are built is a non-empty string.
C7_PathArgsNonEmpty ==
  \A i \in 1..Len(path_args) : path_args[i] # ""

\* The descendants_list of the page the last iteration fetched.
Descendants ==
  DictGet(DictGet(data, "pageProps", Dict(<<>>)), "descendants_list", List(<<>>))

\* The iteration ran on a page with a non-empty descendants_list.
AnalyzedAList ==
  /\ fetches.prabandam > 0
  /\ Truthy(data)
  /\ Descendants.t = "list"
  /\ Descendants.v # <<>>

AllSequences(entries) == \A i \in 1..Len(entries) : entries[i].t = "list"

\* An entry's non-empty components, as strings, and its constructed path.
RECURSIVE Components(_, _)
Components(entry, i) ==
  IF i > Len(entry.v) THEN <<>>
  ELSE (IF entry.v[i] \in {Str(""), Null} THEN <<>> ELSE <<PyStr(entry.v[i])>>)
       \o Components(entry, i + 1)

ConstructedPath(entry) == "/divya-prabandam/" \o Join("/", Components(entry, 1))

HasMarker(entry) ==
  Contains(ConstructedPath(entry), "taniyan")
  \/ Contains(ConstructedPath(entry), "advanced")

\* The urls of the entries from i on that satisfy the claim's test, with
\* the depth of an entry as the claim states it: its length minus one.
\* An entry without a component has no constructed path and no url.
RECURSIVE ClaimedLeafUrls(_, _)
ClaimedLeafUrls(entries, i) ==
  IF i > Len(entries) THEN <<>>
  ELSE (IF /\ Components(entries[i], 1) # <<>>
           /\ Len(entries[i].v) - 1 = Len(entries[Len(entries)].v) - 1
           /\ ~HasMarker(entries[i])
        THEN <<construct_url(ConstructedPath(entries[i]))>>
        ELSE <<>>)
       \o ClaimedLeafUrls(entries, i + 1)

\* The number of elements after the first: 0 for an empty entry.
ElementsAfterFirst(entry) == Cardinality(DOMAIN entry.v \ {1})

RECURSIVE AmendedLeafUrls(_, _)
AmendedLeafUrls(entries, i) ==
  IF i > Len(entries) THEN <<>>
  ELSE (IF /\ Components(entries[i], 1) # <<>>
           /\ ElementsAfterFirst(entries[i])
                = ElementsAfterFirst(entries[Len(entries)])
           /\ ~HasMarker(entries[i])
        THEN <<construct_url(ConstructedPath(entries[i]))>>
        ELSE <<>>)
       \o AmendedLeafUrls(entries, i + 1)

C6_MalformedEntrySkipped ==
  AnalyzedAList =>
    /\ ~analysis.raised
    /\ {analysis.evaluated[j] : j \in 1..Len(analysis.evaluated)}
         = {i \in 1..Len(Descendants.v) : Descendants.v[i].t = "list"}

\* ------------------------------------------------------------ properties of the record

\* The pageProps of the data future i's worker fetched, when it is a page.
IsPage(d) ==
  /\ d.t = "dict"
  /\ HasKey(d, "pageProps")
  /\ DictGet(d, "pageProps", Null).t = "dict"

PagePropsOf(i) == DictGet(result[i].data, "pageProps", Null)

\* The property has no value in the payload: its key is missing or null.
HasNoValue(props, name) == ~HasKey(props, name) \/ DictGet(props, name, Null) = Null

\* C8 as stated: process_paasuram returns the empty mapping, or a record
\* with exactly the eleven keys in which a property that has no value in
\* the payload (key missing or value null) gives the empty string.
C8_RecordShape ==
  \A i \in 1..Len(result) :
    result[i].done =>
      \/ result[i].value = <<>> /\ ~IsPage(result[i].data)
      \/ /\ IsPage(result[i].data)
         /\ [j \in 1..Len(result[i].value) |-> result[i].value[j].k] = Fieldnames
         /\ \A j \in 1..Len(Fieldnames) :
              HasNoValue(PagePropsOf(i), PropNames[j])
                => RecordGet(result[i].value, Fieldnames[j]) = ""

\* The string forms of the elements from i on, all of them, and of those
\* that are neither '' nor 0 nor null.
RECURSIVE StrsOfAll(_, _)
StrsOfAll(xs, i) ==
  IF i > Len(xs) THEN <<>> ELSE <<PyStr(xs[i])>> \o StrsOfAll(xs, i + 1)

RECURSIVE StrsOfNonEmpty(_, _)
StrsOfNonEmpty(xs, i) ==
  IF i > Len(xs) THEN <<>>
  ELSE (IF xs[i] \in {Str(""), Num(0), Null} THEN <<>> ELSE <<PyStr(xs[i])>>)
       \o StrsOfNonEmpty(xs, i + 1)

ScripturesField(i) == RecordGet(result[i].value, "scriptures")

\* C9 as stated: a list gives the string forms of all its elements joined
\* by commas, a string gives itself, an absent property gives ''.
C9_JoinsEveryElement ==
  \A i \in 1..Len(result) :
    (result[i].done /\ IsPage(result[i].data)) =>
      LET props == PagePropsOf(i)
          scriptures == DictGet(props, "scriptures", Null)
      IN  /\ ~HasKey(props, "scriptures") => ScripturesField(i) = ""
          /\ (HasKey(props, "scriptures") /\ scriptures.t = "str")
               => ScripturesField(i) = scriptures.v
          /\ (HasKey(props, "scriptures") /\ scriptures.t = "list")
               => ScripturesField(i) = Join(",", StrsOfAll(scriptures.v, 1))

\* C9 amended: a list gives the string forms of its non-empty elements
\* (those that are not '', 0 or null), in order, joined by commas; a
\* string gives itself; an absent property gives ''.
C9_JoinsNonEmptyElements ==
  \A i \in 1..Len(result) :
    (result[i].done /\ IsPage(result[i].data)) =>
      LET props == PagePropsOf(i)
          scriptures == DictGet(props, "scriptures", Null)
      IN  /\ ~HasKey(props, "scriptures") => ScripturesField(i) = ""
          /\ (HasKey(props, "scriptures") /\ scriptures.t = "str")
               => ScripturesField(i) = scriptures.v
          /\ (HasKey(props, "scriptures") /\ scriptures.t = "list")
               => ScripturesField(i) = Join(",", StrsOfNonEmpty(scriptures.v, 1))

\* C9 witness: the list ['a', ''] gave 'a', collected in a record.
C9_Witness ==
  /\ Len(result) = 1
  /\ result[1].done
  /\ IsPage(result[1].data)
  /\ DictGet(PagePropsOf(1), "scriptures", Null) = List(<<Str("a"), Str("")>>)
  /\ ScripturesField(1) = "a"
  /\ paasurams = <<result[1].value>>

\* ------------------------------------------------------------ specifications

\* A run of scrape_and_save against the site "run".
Next ==
  \/ FetchRoot("run")
  \/ FindPaths
  \/ BuildPrabandamUrls
  \/ AnalyzePrabandam("run")
  \/ AnalyzeDone
  \/ Submit
  \/ WorkerStart
  \/ WorkerRun("run")
  \/ Collect
  \/ CollectDone
  \/ OpenOutput
  \/ WriteRow
  \/ Finish

Spec == Init /\ [][Next]_vars

\* find_url_paths on every JSON value of at most MaxNodes nodes, served as
\* the root page.
NextFind ==
  \/ FetchRoot("find")
  \/ FindPaths

SpecFind == Init /\ [][NextFind]_vars

\* The Prabandam urls built from every list of at most MaxPaths values of
\* url_path_clean.
NextPaths ==
  \/ FetchRoot("paths")
  \/ FindPaths
  \/ BuildPrabandamUrls

SpecPaths == Init /\ [][NextPaths]_vars

\* The structure analysis of one Prabandam on every descendants_list of at
\* most MaxEntries entries.
NextAnalyze ==
  \/ FetchRoot("analyze")
  \/ FindPaths
  \/ BuildPrabandamUrls
  \/ AnalyzePrabandam("analyze")
  \/ AnalyzeDone

SpecAnalyze == Init /\ [][NextAnalyze]_vars

\* A run with one leaf url whose page is any of the verse pages of the
\* site "record".
NextRecord ==
  \/ FetchRoot("record")
  \/ FindPaths
  \/ BuildPrabandamUrls
  \/ AnalyzePrabandam("record")
  \/ AnalyzeDone
  \/ Submit
  \/ WorkerStart
  \/ WorkerRun("record")
  \/ Collect
  \/ CollectDone
  \/ OpenOutput
  \/ WriteRow
  \/ Finish

SpecRecord == Init /\ [][NextRecord]_vars

=============================================================================
